---- MODULE Spec2Model ----
(***************************************************************************)
(* Model of the OpenAI-compatible Workers AI worker: the fetch entry       *)
(* point, its routing, and the handlers handleChatCompletions,             *)
(* handleEmbeddings and handleModels.  One request is followed from        *)
(* arrival to response; the awaited points of the code (request.json()     *)
(* and env.AI.run()) are the step boundaries.                              *)
(***************************************************************************)
EXTENDS Integers, Sequences, FiniteSets, TLC

(* ---------------- bounds of the model ---------------- *)

\* longest `messages` array a request body carries
MaxMessages == 2

\* longest `input` array a request body carries
MaxInputs == 3

(* ---------------- the state ---------------- *)

VARIABLES
    pc,           \* where the request in progress is suspended, "idle" if none
    req,          \* the request being served, or the last one served
    resp,         \* the response returned for req, NoResponse while in progress
    handler,      \* which branch of fetch took req
    bodyRead,     \* request.json() has been called for req
    calls,        \* the env.AI.run calls issued for req, in order
    outstanding,  \* how many of them have not settled
    settled,      \* how the settled ones ended, in order
    embeddings,   \* the local array `embeddings` of handleEmbeddings
    i,            \* the loop variable of handleEmbeddings
    prevStatus    \* the status of the response before the one for req

vars ==
    <<pc, req, resp, handler, bodyRead, calls, outstanding, settled, embeddings, i,
      prevStatus>>

(* ---------------- JavaScript values ---------------- *)

\* A JavaScript value as the backend may resolve it: a primitive, an array,
\* or an object with an optional `response` field (rt, rs) and an optional
\* `data` field (dt, ds).  A field tag of "none" means the field is absent.
JsVal(t, s, rt, rs, dt, ds) ==
    [t |-> t, s |-> s, rt |-> rt, rs |-> rs, dt |-> dt, ds |-> ds]

Prim(t, s) == JsVal(t, s, "none", "", "none", "")

Undefined == Prim("undefined", "")

JsNull == Prim("null", "")

Str(s) == Prim("str", s)

Arr(s) == Prim("arr", s)

Obj(rt, rs, dt, ds) == JsVal("obj", "", rt, rs, dt, ds)

\* JavaScript truthiness: undefined, null, "" and 0 are falsy; arrays and
\* objects (also empty ones) are truthy.
Truthy(v) ==
    CASE v.t = "undefined" -> FALSE
      [] v.t = "null"      -> FALSE
      [] v.t = "str"       -> v.s # ""
      [] v.t = "num"       -> v.s # "0"
      [] OTHER             -> TRUE

\* a || b
OrElse(a, b) == IF Truthy(a) THEN a ELSE b

\* Reading a property of undefined or null throws a TypeError.
PropThrows(v) == v.t \in {"undefined", "null"}

\* v.response
PropResponse(v) ==
    IF v.t = "obj" /\ v.rt # "none" THEN Prim(v.rt, v.rs) ELSE Undefined

\* v.data
PropData(v) ==
    IF v.t = "obj" /\ v.dt # "none" THEN Prim(v.dt, v.ds) ELSE Undefined

\* A thrown or rejected value: an Error instance with a message, or some
\* other value.
Fault(isError, message) == [isError |-> isError, message |-> message]

NoFault == Fault(FALSE, "")

TypeErrorNull == Fault(TRUE, "Cannot read properties of null")

(* ---------------- requests ---------------- *)

Methods == {"GET", "POST", "OPTIONS", "DELETE"}

Paths == {"/", "/v1/models", "/v1/chat/completions", "/v1/embeddings", "/v1/nope"}

\* The value of `messages` in a body: its JavaScript type and, for an array,
\* its length.
MsgVal(t, n) == [t |-> t, n |-> n]

MsgVals ==
    {MsgVal(t, 0) : t \in {"undefined", "null", "str", "obj"}}
        \cup {MsgVal("arr", n) : n \in 0..MaxMessages}

\* The value of `input` in a body: its JavaScript type, its text for a string
\* or number, and its elements for an array.
InVal(t, s, a) == [t |-> t, s |-> s, a |-> a]

Texts == <<"a", "b", "c", "d", "e">>

InVals ==
    {InVal("undefined", "", <<>>), InVal("null", "", <<>>),
     InVal("str", "", <<>>), InVal("str", "hello", <<>>),
     InVal("num", "0", <<>>), InVal("num", "7", <<>>),
     InVal("obj", "", <<>>)}
        \cup {InVal("arr", "", SubSeq(Texts, 1, n)) : n \in 0..MaxInputs}

\* What request.json() yields: a rejection ("invalid": a SyntaxError,
\* "abort": a body stream that fails with a value that is no Error), the
\* JSON value null, a JSON scalar, or an object.  model = "" and other = ""
\* stand for an absent field.
Body(kind, messages, input, model, stream, other) ==
    [kind |-> kind, messages |-> messages, input |-> input, model |-> model,
     stream |-> stream, other |-> other]

EmptyBody(kind) ==
    Body(kind, MsgVal("undefined", 0), InVal("undefined", "", <<>>), "", FALSE, "")

Bodies ==
    {EmptyBody(k) : k \in {"invalid", "abort", "null", "scalar", "object"}}
        \cup {Body("object", m, InVal("undefined", "", <<>>), "", FALSE, "")
                 : m \in MsgVals}
        \cup {Body("object", MsgVal("undefined", 0), in, "", FALSE, "")
                 : in \in InVals}
        \cup {Body("object", MsgVal("arr", 1), InVal("str", "hello", <<>>),
                   "@cf/meta/llama-3.1-8b-instruct", TRUE, "max_tokens"),
              Body("object", MsgVal("undefined", 0), InVal("str", "hello", <<>>),
                   "@cf/baai/bge-base-en-v1.5", FALSE, "")}

Request(method, path, body) == [method |-> method, path |-> path, body |-> body]

Requests == {Request(m, p, b) : m \in Methods, p \in Paths, b \in Bodies}

NoRequest == Request("", "", EmptyBody("object"))

(* ---------------- the backend: env.AI.run ---------------- *)

\* The parameters object handed to env.AI.run: {messages, stream,
\* ...otherParams} from the chat handler, {text} from the embeddings handler.
\* A field the handler does not pass holds its absent value.
Call(model, messages, stream, other, text) ==
    [model |-> model, messages |-> messages, stream |-> stream, other |-> other,
     text |-> text]

\* How a call settles: resolved with a value, or rejected with a fault.
Resolved(v) == [ok |-> TRUE, value |-> v, fault |-> NoFault]

Rejected(f) == [ok |-> FALSE, value |-> Undefined, fault |-> f]

BackendValues ==
    {Str("hi"), Str(""), JsNull, Arr("v0"),
     Obj("str", "hi", "none", ""), Obj("str", "", "none", ""),
     Obj("none", "", "arr", "v1"), Obj("none", "", "arr", "v2"),
     Obj("none", "", "null", "")}

BackendFaults == {Fault(TRUE, "backend unavailable"), Fault(FALSE, "")}

Outcomes == {Resolved(v) : v \in BackendValues} \cup {Rejected(f) : f \in BackendFaults}

\* Date.now(), in milliseconds
Clock == {1999, 2000}

(* ---------------- responses ---------------- *)

\* The three CORS headers of corsHeaders.
corsHeaders ==
    [origin |-> "*", methods |-> "GET, POST, PUT, DELETE, OPTIONS",
     headers |-> "Content-Type, Authorization"]

NoHeaders == [origin |-> "", methods |-> "", headers |-> ""]

\* No response yet.  status 0 stands for "no response"; kind "unhandled"
\* would stand for a fault that left fetch uncaught.
NoResponse ==
    [status |-> 0, kind |-> "none", cors |-> NoHeaders, json |-> FALSE,
     error |-> "", hasMessage |-> FALSE, message |-> "",
     id |-> 0, created |-> 0, model |-> "", content |-> Undefined,
     role |-> "", finish |-> "", usage |-> <<>>, data |-> <<>>, catalog |-> <<>>]

\* new Response(JSON.stringify(...), {status, headers: {'Content-Type':
\* 'application/json', ...corsHeaders}}); the status defaults to 200.
JsonResponse(status, kind) ==
    [NoResponse EXCEPT !.status = status, !.kind = kind, !.cors = corsHeaders,
                       !.json = TRUE]

\* {error: text}
ErrorResponse(status, text) ==
    [JsonResponse(status, "error") EXCEPT !.error = text]

\* error instanceof Error ? error.message : 'Unknown error'
ErrorMessage(fault) == IF fault.isError THEN fault.message ELSE "Unknown error"

\* {error: text, message: ...}
FaultResponse(text, fault) ==
    [ErrorResponse(500, text) EXCEPT !.hasMessage = TRUE,
                                     !.message = ErrorMessage(fault)]

\* new Response(null, {headers: corsHeaders})
PreflightResponse ==
    [NoResponse EXCEPT !.status = 200, !.kind = "empty", !.cors = corsHeaders]

\* the document of the root path
InfoResponse == JsonResponse(200, "info")

NotFoundResponse == ErrorResponse(404, "Not found")

MethodNotAllowedResponse == ErrorResponse(405, "Method not allowed")

\* fetchCatch with the bug of reading error.message of whatever was thrown:
\* a thrown value that is no Error has no message.
fetchCatchRaw(fault) ==
    [ErrorResponse(500, "Internal server error") EXCEPT
        !.hasMessage = TRUE, !.message = fault.message]

\* the catch clause of fetch
fetchCatch(fault) == FaultResponse("Internal server error", fault)

\* chatCatch with the bug of leaving `status: 500` out of the Response: the
\* status then defaults to 200.
chatCatchNoStatus(fault) ==
    [FaultResponse("Failed to generate completion", fault) EXCEPT !.status = 200]

\* the catch clause of handleChatCompletions
chatCatch(fault) == FaultResponse("Failed to generate completion", fault)

\* embeddingsCatch with the bug of handing back what the loop had collected
\* when the failing call was made.
embeddingsCatchPartial(fault) ==
    [FaultResponse("Failed to generate embeddings", fault) EXCEPT
        !.data = embeddings]

\* the catch clause of handleEmbeddings
embeddingsCatch(fault) == FaultResponse("Failed to generate embeddings", fault)

\* the five model descriptors of handleModels, by id
ModelIds ==
    <<"@cf/meta/llama-3.3-70b-instruct-fp8-fast",
      "@cf/meta/llama-3.1-70b-instruct",
      "@cf/meta/llama-3-8b-instruct",
      "@cf/baai/bge-large-en-v1.5",
      "@cf/baai/bge-base-en-v1.5">>

ModelDescriptor(id) ==
    [id |-> id, object |-> "model", created |-> 1677610602, owned_by |-> "cloudflare"]

\* handleModels with the bug of a catalog shared between requests that an
\* earlier failure leaves truncated.
handleModelsStateful ==
    [JsonResponse(200, "models") EXCEPT
        !.catalog = [k \in 1..(IF resp.status = 500 THEN 4 ELSE 5)
                        |-> ModelDescriptor(ModelIds[k])]]

\* handleModels: the list envelope around the five descriptors
handleModels ==
    [JsonResponse(200, "models") EXCEPT
        !.catalog = [k \in 1..Len(ModelIds) |-> ModelDescriptor(ModelIds[k])]]

(* ---------------- the chat handler ---------------- *)

\* IsPost with the bug of turning away GET only.
IsNotGet(method) == method # "GET"

\* request.method !== 'POST' is answered 405 by both handlers
IsPost(method) == method = "POST"

\* const { model = <default> } = body
ModelOr(body, default) == IF body.model = "" THEN default ELSE body.model

ChatDefaultModel == "@cf/meta/llama-3.3-70b-instruct-fp8-fast"

EmbeddingsDefaultModel == "@cf/baai/bge-large-en-v1.5"

\* truthiness and Array.isArray of `messages`
MessagesTruthy(m) == m.t \in {"str", "obj", "arr"}

MessagesIsArray(m) == m.t = "arr"

\* ValidMessages with the bug of testing presence only.
ValidMessagesPresent(m) == MessagesTruthy(m)

\* the negation of (!messages || !Array.isArray(messages))
ValidMessages(m) == MessagesTruthy(m) /\ MessagesIsArray(m)

\* env.AI.run(model, {messages, stream, ...otherParams})
ChatCall(body) ==
    Call(ModelOr(body, ChatDefaultModel), body.messages, body.stream, body.other,
         InVal("undefined", "", <<>>))

\* content: response.response || response
ChatContent(response) == OrElse(PropResponse(response), response)

\* openaiResponse of handleChatCompletions and the Response around it
ChatResponse(model, response, now) ==
    [JsonResponse(200, "chat.completion") EXCEPT
        !.id = now, !.created = now \div 1000, !.model = model,
        !.role = "assistant", !.content = ChatContent(response),
        !.finish = "stop", !.usage = <<0, 0, 0>>]

(* ---------------- the embeddings handler ---------------- *)

\* the negation of (!input)
ValidInput(input) ==
    CASE input.t = "undefined" -> FALSE
      [] input.t = "null"      -> FALSE
      [] input.t = "str"       -> input.s # ""
      [] input.t = "num"       -> input.s # "0"
      [] OTHER                 -> TRUE

\* Array.isArray(input) ? input : [input]
NormalizeInput(input) ==
    IF input.t = "arr"
    THEN [k \in 1..Len(input.a) |-> InVal("str", input.a[k], <<>>)]
    ELSE <<input>>

\* env.AI.run(model, {text: inputs[i]}) with i = at, counted from 0
EmbeddingsCall(body, at) ==
    Call(ModelOr(body, EmbeddingsDefaultModel), MsgVal("undefined", 0), FALSE, "",
         NormalizeInput(body.input)[at + 1])

\* EmbeddingEntry with the bug of a 1-based index.
EmbeddingEntryOneBased(response, at) ==
    [object |-> "embedding", embedding |-> OrElse(PropData(response), response),
     index |-> at + 1]

\* {object: 'embedding', embedding: response.data || response, index: i}
\* with i = at
EmbeddingEntry(response, at) ==
    [object |-> "embedding", embedding |-> OrElse(PropData(response), response),
     index |-> at]

\* the loop condition i < inputs.length
MoreInputs(at, inputs) == at < Len(inputs)

\* openaiResponse of handleEmbeddings and the Response around it
EmbeddingsResponse(model, data) ==
    [JsonResponse(200, "list") EXCEPT
        !.model = model, !.data = data, !.usage = <<0, 0>>]

(* ---------------- the steps of a request ---------------- *)

Init ==
    /\ pc = "idle"
    /\ req = NoRequest
    /\ resp = NoResponse
    /\ handler = "none"
    /\ bodyRead = FALSE
    /\ calls = <<>>
    /\ outstanding = 0
    /\ settled = <<>>
    /\ embeddings = <<>>
    /\ i = 0
    /\ prevStatus = 0

\* return a Response from fetch
Return(r) ==
    /\ resp' = r
    /\ pc' = "idle"

\* env.AI.run(...) is called and awaited
Await(c, at) ==
    /\ calls' = Append(calls, c)
    /\ pc' = at
    /\ resp' = NoResponse

\* IsPreflight with the bug of comparing against the lower-case method name.
IsPreflightLower(method) == method = "options"

\* the OPTIONS test at the head of fetch
IsPreflight(method) == method = "OPTIONS"

\* the chain of path tests in fetch
Route(path) ==
    CASE path = "/"                    -> "info"
      [] path = "/v1/models"           -> "models"
      [] path = "/v1/chat/completions" -> "chat"
      [] path = "/v1/embeddings"       -> "embeddings"
      [] OTHER                         -> "notfound"

\* fetch, up to its first awaited point: a request arrives and is answered at
\* once, or a handler calls request.json() and waits for it.
Fetch(r) ==
    /\ pc = "idle"
    /\ req' = r
    /\ prevStatus' = resp.status
    /\ calls' = <<>>
    /\ outstanding' = 0
    /\ settled' = <<>>
    /\ embeddings' = <<>>
    /\ i' = 0
    /\ IF IsPreflight(r.method)
       THEN /\ handler' = "preflight"
            /\ bodyRead' = FALSE
            /\ Return(PreflightResponse)
       ELSE /\ handler' = Route(r.path)
            /\ CASE Route(r.path) = "info" ->
                      bodyRead' = FALSE /\ Return(InfoResponse)
                 [] Route(r.path) = "models" ->
                      bodyRead' = FALSE /\ Return(handleModels)
                 [] Route(r.path) = "notfound" ->
                      bodyRead' = FALSE /\ Return(NotFoundResponse)
                 [] Route(r.path) \in {"chat", "embeddings"} ->
                      IF ~IsPost(r.method)
                      THEN bodyRead' = FALSE /\ Return(MethodNotAllowedResponse)
                      ELSE /\ bodyRead' = TRUE
                           /\ resp' = NoResponse
                           /\ pc' = IF Route(r.path) = "chat"
                                    THEN "chat_json" ELSE "embeddings_json"

\* What `await request.json()` followed by the destructuring of body throws:
\* the rejection of json(), or the TypeError of destructuring null.
BodyThrows(body) == body.kind \in {"invalid", "abort", "null"}

BodyFault(body) ==
    CASE body.kind = "invalid" -> Fault(TRUE, "Unexpected token in JSON")
      [] body.kind = "abort"   -> Fault(FALSE, "")
      [] OTHER                 -> Fault(TRUE, "Cannot destructure property of null")

\* handleChatCompletions from the settling of request.json() to the await of
\* env.AI.run
ChatJson ==
    /\ pc = "chat_json"
    /\ UNCHANGED <<req, handler, bodyRead, settled, embeddings, i, prevStatus>>
    /\ IF BodyThrows(req.body)
       THEN Return(fetchCatch(BodyFault(req.body))) /\ UNCHANGED <<calls, outstanding>>
       ELSE IF ~ValidMessages(req.body.messages)
       THEN /\ Return(ErrorResponse(400, "Messages array is required"))
            /\ UNCHANGED <<calls, outstanding>>
       ELSE /\ Await(ChatCall(req.body), "chat_run")
            /\ outstanding' = outstanding + 1

\* handleChatCompletions from the settling of env.AI.run to its return
ChatRun(out, now) ==
    /\ pc = "chat_run"
    /\ UNCHANGED <<req, handler, bodyRead, calls, embeddings, i, prevStatus>>
    /\ outstanding' = outstanding - 1
    /\ settled' = Append(settled, out)
    /\ IF ~out.ok
       THEN Return(chatCatch(out.fault))
       ELSE IF PropThrows(out.value)
       THEN Return(chatCatch(TypeErrorNull))
       ELSE Return(ChatResponse(ModelOr(req.body, ChatDefaultModel), out.value, now))

\* handleEmbeddings from the settling of request.json() to the first await of
\* env.AI.run, or to its return when the loop has nothing to do
EmbeddingsJson ==
    /\ pc = "embeddings_json"
    /\ UNCHANGED <<req, handler, bodyRead, settled, embeddings, i, prevStatus>>
    /\ IF BodyThrows(req.body)
       THEN Return(fetchCatch(BodyFault(req.body))) /\ UNCHANGED <<calls, outstanding>>
       ELSE IF ~ValidInput(req.body.input)
       THEN /\ Return(ErrorResponse(400, "Input is required"))
            /\ UNCHANGED <<calls, outstanding>>
       ELSE IF MoreInputs(0, NormalizeInput(req.body.input))
       THEN /\ Await(EmbeddingsCall(req.body, 0), "embeddings_run")
            /\ outstanding' = outstanding + 1
       ELSE /\ Return(EmbeddingsResponse(ModelOr(req.body, EmbeddingsDefaultModel),
                                         <<>>))
            /\ UNCHANGED <<calls, outstanding>>

\* handleEmbeddings from the settling of one env.AI.run to the await of the
\* next, or to its return
EmbeddingsRun(out) ==
    /\ pc = "embeddings_run"
    /\ UNCHANGED <<req, handler, bodyRead, prevStatus>>
    /\ settled' = Append(settled, out)
    /\ IF ~out.ok
       THEN /\ Return(embeddingsCatch(out.fault))
            /\ outstanding' = outstanding - 1
            /\ UNCHANGED <<calls, embeddings, i>>
       ELSE IF PropThrows(out.value)
       THEN /\ Return(embeddingsCatch(TypeErrorNull))
            /\ outstanding' = outstanding - 1
            /\ UNCHANGED <<calls, embeddings, i>>
       ELSE /\ embeddings' = Append(embeddings, EmbeddingEntry(out.value, i))
            /\ i' = i + 1
            /\ IF MoreInputs(i + 1, NormalizeInput(req.body.input))
               THEN /\ Await(EmbeddingsCall(req.body, i + 1), "embeddings_run")
                    /\ outstanding' = outstanding
               ELSE /\ Return(EmbeddingsResponse(
                                  ModelOr(req.body, EmbeddingsDefaultModel),
                                  embeddings'))
                    /\ outstanding' = outstanding - 1
                    /\ UNCHANGED calls

Next ==
    \/ \E r \in Requests : Fetch(r)
    \/ ChatJson
    \/ \E out \in Outcomes, now \in Clock : ChatRun(out, now)
    \/ EmbeddingsJson
    \/ \E out \in Outcomes : EmbeddingsRun(out)

Spec == Init /\ [][Next]_vars

(* ---------------- properties ---------------- *)

ChatPath == "/v1/chat/completions"

EmbeddingsPath == "/v1/embeddings"

\* req has been answered
Done == pc = "idle" /\ req # NoRequest

\* request.json() gave a value (null, a scalar or an object)
Parsed == bodyRead /\ req.body.kind \in {"null", "scalar", "object"}

\* C1: a POST to /v1/chat/completions whose parsed body lacks `messages` or
\* holds a `messages` that is no sequence, and a POST to /v1/embeddings whose
\* parsed body lacks `input`, is answered 400 and makes no backend call.
C1_MissingFieldIs400 ==
    (/\ Done
     /\ req.method = "POST"
     /\ Parsed
     /\ \/ req.path = ChatPath /\ req.body.messages.t # "arr"
        \/ req.path = EmbeddingsPath /\ req.body.input.t = "undefined")
        => (resp.status = 400 /\ calls = <<>>)

\* C2: when a backend call of a validated chat or embeddings request rejects,
\* the request is answered 500 with an `error` field, and never 200.
C2_BackendFaultIs500 ==
    (/\ Done
     /\ req.path \in {ChatPath, EmbeddingsPath}
     /\ \E k \in 1..Len(settled) : ~settled[k].ok)
        => (resp.status = 500 /\ resp.kind = "error" /\ resp.error # "")

C2_Witness ==
    /\ Done
    /\ req.path = ChatPath
    /\ Len(settled) = 1
    /\ ~settled[1].ok
    /\ ~settled[1].fault.isError
    /\ resp.status = 500
    /\ resp.message = "Unknown error"

\* the reply text as the specification normalizes it: the `response` field
\* of an object that has one, whatever it holds, else the value itself
ReplyText(v) == IF v.t = "obj" /\ v.rt # "none" THEN Prim(v.rt, v.rs) ELSE v

\* C3: the 200 response of a chat request with a non-empty `messages`
\* sequence carries the normalized reply text of the backend as
\* choices[0].message.content, and a usage block of zeros.
C3_ContentIsReplyText ==
    (/\ Done
     /\ req.path = ChatPath
     /\ req.body.messages.t = "arr"
     /\ req.body.messages.n >= 1
     /\ resp.status = 200
     /\ Len(settled) = 1
     /\ settled[1].ok)
        => (resp.content = ReplyText(settled[1].value) /\ resp.usage = <<0, 0, 0>>)

\* the input elements of an embeddings request, in order: the elements of a
\* sequence, or the scalar alone
InputElements(input) ==
    IF input.t = "arr" THEN [k \in 1..Len(input.a) |-> input.a[k]] ELSE <<input.s>>

\* C4: the `data` of a 200 embeddings response has one entry per element of
\* the normalized input; entry k (from 0) has index k and holds the result of
\* the call made for element k; a scalar string gives one entry.
C4_DataMatchesInput ==
    (Done /\ req.path = EmbeddingsPath /\ req.method = "POST" /\ resp.status = 200)
        => LET n == Len(InputElements(req.body.input))
           IN  /\ Len(resp.data) = n
               /\ Len(calls) = n
               /\ Len(settled) = n
               /\ \A k \in 1..n :
                    /\ resp.data[k].index = k - 1
                    /\ calls[k].text.s = InputElements(req.body.input)[k]
                    /\ settled[k].ok
                    /\ resp.data[k].embedding =
                          OrElse(PropData(settled[k].value), settled[k].value)
               /\ (req.body.input.t = "str" => Len(resp.data) = 1)

C4_Witness ==
    /\ Done
    /\ req.path = EmbeddingsPath
    /\ req.method = "POST"
    /\ resp.status = 200
    /\ Len(resp.data) = 2
    /\ resp.data[1].embedding = Arr("v1")
    /\ resp.data[2].embedding = Arr("v0")
    /\ resp.data[2].index = 1

\* C5: a request to /v1/chat/completions or /v1/embeddings whose method is
\* neither POST nor OPTIONS is answered 405 at once: the body is never read
\* and the backend never called, whatever the body holds.
C5_WrongMethodIs405 ==
    (/\ req.path \in {ChatPath, EmbeddingsPath}
     /\ req.method \notin {"POST", "OPTIONS", ""})
        => (/\ pc = "idle"
            /\ resp.status = 405
            /\ ~bodyRead
            /\ calls = <<>>)

C5_Witness ==
    /\ Done
    /\ req.path = EmbeddingsPath
    /\ req.method = "DELETE"
    /\ req.body.input = InVal("str", "hello", <<>>)
    /\ resp.status = 405

\* C6: an OPTIONS request to any path is answered at once with a 2xx status,
\* no body and the three CORS headers; nothing is routed, no body is read and
\* the backend is not called.
C6_PreflightShortCircuits ==
    req.method = "OPTIONS"
        => (/\ pc = "idle"
            /\ resp.status \in 200..299
            /\ resp.kind = "empty"
            /\ ~resp.json
            /\ resp.cors.origin = "*"
            /\ resp.cors.methods # ""
            /\ resp.cors.headers # ""
            /\ handler = "preflight"
            /\ ~bodyRead
            /\ calls = <<>>)

C6_Witness ==
    /\ Done
    /\ req.method = "OPTIONS"
    /\ req.path = "/v1/nope"
    /\ req.body.kind = "invalid"
    /\ resp.status = 200

\* C7: whatever came before, a GET to /v1/models is answered 200 with the
\* list envelope of the same five descriptors in the same order, and makes
\* no backend call.
C7_CatalogIsFixed ==
    (Done /\ req.path = "/v1/models" /\ req.method = "GET")
        => (/\ resp.status = 200
            /\ resp.kind = "models"
            /\ Len(resp.catalog) = 5
            /\ [k \in 1..5 |-> resp.catalog[k].id] =
                  <<"@cf/meta/llama-3.3-70b-instruct-fp8-fast",
                    "@cf/meta/llama-3.1-70b-instruct",
                    "@cf/meta/llama-3-8b-instruct",
                    "@cf/baai/bge-large-en-v1.5",
                    "@cf/baai/bge-base-en-v1.5">>
            /\ \A k \in 1..5 :
                 /\ resp.catalog[k].object = "model"
                 /\ resp.catalog[k].owned_by = "cloudflare"
            /\ ~bodyRead
            /\ calls = <<>>)

C7_Witness ==
    /\ Done
    /\ req.path = "/v1/models"
    /\ req.method = "GET"
    /\ prevStatus = 500
    /\ Len(resp.catalog) = 5

\* C8, as claimed: the chat handler calls the backend only for a `messages`
\* sequence of at least one element, and a POST with an empty `messages`
\* sequence is answered 400 without a backend call.
C8_EmptyMessagesRejected ==
    (req.path = ChatPath /\ req.method = "POST")
        => (/\ calls # <<>> => (req.body.messages.t = "arr" /\ req.body.messages.n >= 1)
            /\ (Done /\ Parsed /\ req.body.messages = MsgVal("arr", 0))
                  => (resp.status = 400 /\ calls = <<>>))

\* C8, amended: the chat handler calls the backend only when `messages` is a
\* sequence; an empty sequence passes validation, so the backend is called
\* once with it and the answer is 200 or 500 as the backend decides.
C8_SequenceRequired ==
    (req.path = ChatPath /\ req.method = "POST")
        => (/\ calls # <<>> => req.body.messages.t = "arr"
            /\ (Done /\ Parsed /\ req.body.messages = MsgVal("arr", 0))
                  => (/\ Len(calls) = 1
                      /\ calls[1].messages = MsgVal("arr", 0)
                      /\ resp.status \in {200, 500}))

C8_Witness ==
    /\ Done
    /\ req.path = ChatPath
    /\ req.method = "POST"
    /\ req.body.messages = MsgVal("arr", 0)
    /\ Len(calls) = 1
    /\ resp.status = 200

\* C9: a fault raised before a handler's own try block (request.json()
\* rejecting, or the destructuring of a null body) is answered by fetch with
\* a 500 "Internal server error" whose message is the fault's message, or
\* "Unknown error" for a fault that is no Error; the backend is not called,
\* and every request that ends has a response.
C9_OuterCatch ==
    /\ Done => resp.status \in {200, 400, 404, 405, 500}
    /\ (Done /\ bodyRead /\ req.body.kind \in {"invalid", "abort", "null"})
          => (/\ resp.status = 500
              /\ resp.error = "Internal server error"
              /\ resp.hasMessage
              /\ resp.message =
                    (CASE req.body.kind = "invalid" -> "Unexpected token in JSON"
                       [] req.body.kind = "abort" -> "Unknown error"
                       [] OTHER -> "Cannot destructure property of null")
              /\ calls = <<>>)

C9_Witness ==
    /\ Done
    /\ req.path = EmbeddingsPath
    /\ bodyRead
    /\ req.body.kind = "abort"
    /\ resp.status = 500
    /\ resp.message = "Unknown error"

\* C10: within one embeddings request the backend calls go out one at a time
\* in input order, each after the one before it has returned a result; once a
\* call fails no further call is made, none is repeated, and the answer is a
\* 500 that carries none of the embeddings obtained so far.
C10_SequentialCalls ==
    req.path = EmbeddingsPath
        => (/\ outstanding \in {0, 1}
            /\ Len(calls) = Len(settled) + outstanding
            /\ Len(calls) <= Len(InputElements(req.body.input))
            /\ \A k \in 1..Len(calls) :
                 calls[k].text.s = InputElements(req.body.input)[k]
            /\ \A k \in 1..Len(settled) :
                 k < Len(calls) => settled[k].ok
            /\ (Done /\ \E k \in 1..Len(settled) : ~settled[k].ok)
                  => (/\ ~settled[Len(calls)].ok
                      /\ resp.status = 500
                      /\ resp.kind = "error"
                      /\ resp.data = <<>>))

C10_Witness ==
    /\ Done
    /\ req.path = EmbeddingsPath
    /\ Len(InputElements(req.body.input)) = 3
    /\ Len(calls) = 2
    /\ settled[1].ok
    /\ ~settled[2].ok
    /\ Len(embeddings) = 1
    /\ resp.status = 500
    /\ resp.data = <<>>

====
